---- MODULE Spec2Model ----
(***************************************************************************)
(* Model of slacker.go: a Slack webhook notifier that suppresses repeated  *)
(* notifications with a JSON record file.  Strings are TLA+ strings; the   *)
(* record file is modelled by its bytes, and the JSON encoder and decoder  *)
(* work on those bytes.  Tags and messages are drawn from characters that  *)
(* encoding/json writes without escaping.                                  *)
(***************************************************************************)
EXTENDS Integers, Sequences, FiniteSets, TLC

(* ------------------------------ bounds --------------------------------- *)
StartHour == 22
MaxTicks == 2
MaxCalls == 2
MaxFaults == 1

(* ----------------------------- constants ------------------------------- *)
NotifyAlways == 0
NotifyOnceHour == 1
NotifyOnceDay == 2
DefaultDatabaseFilePath == "slacker.json"
DefaultMessageTag == "default_tag"
DefaultUsername == "Slacker Notifier"
DefaultIconEmoji == ":ghost:"
HoursPerDay == 24

(* ------------------------------ strings -------------------------------- *)
Char(s, i) == SubSeq(s, i, i)

\* the bytes used in keys, in ascending byte order (Go sorts map keys bytewise)
ByteOrder == " -0123456789:_abcdefghijklmnopqrstuvwxyz"

Ord(c) == CHOOSE i \in 1..Len(ByteOrder) : Char(ByteOrder, i) = c

RECURSIVE StrLess(_, _)
StrLess(a, b) ==
    IF Len(b) = 0 THEN FALSE
    ELSE IF Len(a) = 0 THEN TRUE
    ELSE IF Char(a, 1) = Char(b, 1) THEN StrLess(Tail(a), Tail(b))
    ELSE Ord(Char(a, 1)) < Ord(Char(b, 1))

(* ------------------------- time.Format layouts ------------------------- *)
Digit(n) == Char("0123456789", n + 1)
Pad2(n) == Digit((n \div 10) % 10) \o Digit(n % 10)

\* the clock counts hours from 2024-01-01 00:00 and stays inside that month
FormatDay(t) == "2024-01-" \o Pad2(1 + (t \div HoursPerDay))
FormatHour(t) == FormatDay(t) \o "-" \o Pad2(t % HoursPerDay)

(* --------------------------- encoding/json ----------------------------- *)
EmptyDb == [k \in {} |-> ""]

DbPut(db, k, v) == [x \in (DOMAIN db) \cup {k} |-> IF x = k THEN v ELSE db[x]]

MinKey(ks) == CHOOSE k \in ks : \A o \in ks \ {k} : StrLess(k, o)

Quote(s) == "\"" \o s \o "\""

RECURSIVE EncodeMembersNoComma(_, _)
EncodeMembersNoComma(db, ks) ==
    IF ks = {} THEN ""
    ELSE LET k == MinKey(ks)
             rest == ks \ {k}
         IN Quote(k) \o ":" \o Quote(db[k]) \o EncodeMembersNoComma(db, rest)

RECURSIVE EncodeMembers(_, _)
EncodeMembers(db, ks) ==
    IF ks = {} THEN ""
    ELSE LET k == MinKey(ks)
             rest == ks \ {k}
         IN Quote(k) \o ":" \o Quote(db[k])
              \o (IF rest = {} THEN "" ELSE "," \o EncodeMembers(db, rest))

\* json.Encoder.Encode of a map[string]string: keys sorted, newline appended
Encode(db) == "{" \o EncodeMembers(db, DOMAIN db) \o "}" \o "\n"

IsSpace(c) == c \in {" ", "\n"}

RECURSIVE SkipWs(_, _)
SkipWs(s, i) == IF i <= Len(s) /\ IsSpace(Char(s, i)) THEN SkipWs(s, i + 1) ELSE i

RECURSIVE FindQuote(_, _)
FindQuote(s, i) ==
    IF i > Len(s) THEN 0
    ELSE IF Char(s, i) = "\"" THEN i
    ELSE FindQuote(s, i + 1)

DecodeError == [err |-> TRUE, db |-> EmptyDb]

\* a string literal starting at i: [ok, val, next]
ParseString(s, i) ==
    IF i > Len(s) \/ Char(s, i) # "\"" THEN [ok |-> FALSE, val |-> "", next |-> i]
    ELSE LET j == FindQuote(s, i + 1)
         IN IF j = 0 THEN [ok |-> FALSE, val |-> "", next |-> i]
            ELSE [ok |-> TRUE, val |-> SubSeq(s, i + 1, j - 1), next |-> j + 1]

\* members of an object, i at the first byte of a key; input after the
\* closing brace is never looked at
RECURSIVE ParseMembers(_, _, _)
ParseMembers(s, i, acc) ==
    LET k == ParseString(s, i)
        c == SkipWs(s, k.next)
        v == ParseString(s, SkipWs(s, c + 1))
        e == SkipWs(s, v.next)
    IN IF ~k.ok \/ c > Len(s) \/ Char(s, c) # ":" THEN DecodeError
       ELSE IF ~v.ok \/ e > Len(s) THEN DecodeError
       ELSE IF Char(s, e) = "}" THEN [err |-> FALSE, db |-> DbPut(acc, k.val, v.val)]
       ELSE IF Char(s, e) = "," THEN
            ParseMembers(s, SkipWs(s, e + 1), DbPut(acc, k.val, v.val))
       ELSE DecodeError

\* json.Decoder.Decode into a map[string]string: the first JSON value of the
\* input; an empty input is io.EOF
Decode(s) ==
    LET i == SkipWs(s, 1)
        j == SkipWs(s, i + 1)
    IN IF i > Len(s) \/ Char(s, i) # "{" THEN DecodeError
       ELSE IF j > Len(s) THEN DecodeError
       ELSE IF Char(s, j) = "}" THEN [err |-> FALSE, db |-> EmptyDb]
       ELSE ParseMembers(s, j, EmptyDb)

(* ------------------------- configuration space ------------------------- *)
Procs == {"p1", "p2"}

Recipient1 == [Channel |-> "#ops", Username |-> "bot"]
Recipient2 == [Channel |-> "#oncall", Username |-> "bot"]

Tags == {"", "a"}
Messages == {"c", "ddd"}
Frequencies == {NotifyAlways, NotifyOnceHour, NotifyOnceDay}
RecipientLists == {<<Recipient1>>, <<Recipient1, Recipient2>>}
\* what one POST can come back with: a transport error or a response body
PostOutcomes == {[err |-> TRUE, body |-> ""],
                 [err |-> FALSE, body |-> "ok"],
                 [err |-> FALSE, body |-> "invalid_token"]}

VARIABLES
    now,        \* wall clock, in hours
    fs,         \* the record file: exists, body, writable; creatable: its directory accepts new files
                \* (at the start: not there yet, or left as {} by an earlier run)
    call,       \* per caller: the Send call in progress or just returned
    prev,       \* the Send call that returned before the current one began
    disturbed,  \* the environment touched the record file since the last Send returned
    acked,      \* history: the (fingerprint, message) pairs every recipient answered "ok" to
    calls,      \* Send calls begun
    faults      \* environment events so far

vars == <<now, fs, call, prev, disturbed, acked, calls, faults>>

(* ------------------------------- Slacker ------------------------------- *)
Slacker(hook, to, frequency, tag) ==
    [Hook |-> hook, IconEmoji |-> "", From |-> "", To |-> to,
     Frequency |-> frequency, MessageTag |-> tag, DatabaseFilePath |-> ""]

SlackMessage(slacker, recipient, message) ==
    [Channel |-> recipient.Channel, Username |-> slacker.From,
     Text |-> recipient.Username \o " " \o message, IconEmoji |-> slacker.IconEmoji]

setDefaultsErrNoHookCheck(slacker) ==
    IF Len(slacker.To) = 0 THEN "Recipients are not set" ELSE ""

setDefaultsErr(slacker) ==
    IF slacker.Hook = "" THEN "Web hook url is not set"
    ELSE IF Len(slacker.To) = 0 THEN "Recipients are not set"
    ELSE ""

setDefaults(slacker) ==
    [slacker EXCEPT
        !.IconEmoji = IF @ = "" THEN DefaultIconEmoji ELSE @,
        !.From = IF @ = "" THEN DefaultUsername ELSE @,
        !.MessageTag = IF @ = "" THEN DefaultMessageTag ELSE @,
        !.DatabaseFilePath = IF @ = "" THEN DefaultDatabaseFilePath ELSE @]

\* what callers pass to Send: every complete configuration, and the
\* configurations that lack the hook, the recipients or both
Inputs ==
    {[slacker |-> Slacker("https://hook", to, frequency, tag), message |-> message] :
        to \in RecipientLists, frequency \in Frequencies, tag \in Tags, message \in Messages}
    \cup {[slacker |-> Slacker(hook, to, NotifyOnceHour, "a"), message |-> "c"] :
        hook \in {"", "https://hook"}, to \in {<< >>, <<Recipient1>>}}

getHashDayOnly(slacker, subject, t) ==
    IF slacker.Frequency \in {NotifyOnceHour, NotifyOnceDay}
        THEN FormatDay(t) \o ":" \o slacker.MessageTag \o ":" \o subject
    ELSE ""

getHashAlwaysKeyed(slacker, subject, t) ==
    IF slacker.Frequency = NotifyOnceHour
        THEN FormatHour(t) \o ":" \o slacker.MessageTag \o ":" \o subject
    ELSE IF slacker.Frequency = NotifyOnceDay
        THEN FormatDay(t) \o ":" \o slacker.MessageTag \o ":" \o subject
    ELSE ":" \o slacker.MessageTag \o ":" \o subject

getHash(slacker, subject, t) ==
    IF slacker.Frequency = NotifyOnceHour
        THEN FormatHour(t) \o ":" \o slacker.MessageTag \o ":" \o subject
    ELSE IF slacker.Frequency = NotifyOnceDay
        THEN FormatDay(t) \o ":" \o slacker.MessageTag \o ":" \o subject
    ELSE ""

sendAnyBody(outcome) ==
    IF outcome.err THEN [response |-> "", err |-> TRUE]
    ELSE [response |-> outcome.body, err |-> FALSE]

\* send: the response must be the body "ok"
send(outcome) ==
    IF outcome.err THEN [response |-> "", err |-> TRUE]
    ELSE IF outcome.body # "ok" THEN [response |-> "", err |-> TRUE]
    ELSE [response |-> outcome.body, err |-> FALSE]

(* ---------------------------- the record file -------------------------- *)
createDbEmpty(f) ==
    IF ~f.creatable THEN [err |-> TRUE, fs |-> f, offset |-> 0]
    ELSE [err |-> FALSE,
          fs |-> [f EXCEPT !.exists = TRUE, !.body = "", !.writable = TRUE],
          offset |-> 0]

\* os.Create, Truncate(0), Write("{}"): the handle is left positioned after
\* the two bytes written
createDb(f) ==
    IF ~f.creatable THEN [err |-> TRUE, fs |-> f, offset |-> 0]
    ELSE [err |-> FALSE,
          fs |-> [f EXCEPT !.exists = TRUE, !.body = "{}", !.writable = TRUE],
          offset |-> 2]

\* os.Open, else createDb; then Decode from the handle's position
loadDb(f) ==
    LET opened == IF f.exists THEN [err |-> FALSE, fs |-> f, offset |-> 0]
                  ELSE createDb(f)
    IN IF opened.err THEN [err |-> TRUE, db |-> EmptyDb, fs |-> opened.fs]
       ELSE LET d == Decode(SubSeq(opened.fs.body, opened.offset + 1, Len(opened.fs.body)))
            IN [err |-> d.err, db |-> d.db, fs |-> opened.fs]

saveDbAppend(f, db) ==
    IF ~f.exists \/ ~f.writable THEN [err |-> TRUE, fs |-> f]
    ELSE [err |-> FALSE, fs |-> [f EXCEPT !.body = @ \o Encode(db)]]

\* os.OpenFile(O_WRONLY): no O_CREATE, no O_TRUNC; Encode writes from offset 0
saveDb(f, db) ==
    IF ~f.exists \/ ~f.writable THEN [err |-> TRUE, fs |-> f]
    ELSE LET out == Encode(db)
         IN [err |-> FALSE,
             fs |-> [f EXCEPT !.body = out \o SubSeq(@, Len(out) + 1, Len(@))]]

inDbFailClosed(f, hash) ==
    LET l == loadDb(f)
    IN IF l.err THEN [found |-> TRUE, fs |-> l.fs, loadErr |-> TRUE]
       ELSE [found |-> hash \in DOMAIN l.db, fs |-> l.fs, loadErr |-> FALSE]

inDbNeverFound(f, hash) ==
    LET l == loadDb(f)
    IN [found |-> FALSE, fs |-> l.fs, loadErr |-> l.err]

inDb(f, hash) ==
    LET l == loadDb(f)
    IN IF l.err THEN [found |-> FALSE, fs |-> l.fs, loadErr |-> TRUE]
       ELSE [found |-> hash \in DOMAIN l.db, fs |-> l.fs, loadErr |-> FALSE]

needToSendAlwaysChecks(slacker, f, hash) ==
    LET r == inDb(f, hash)
    IN [need |-> ~r.found, fs |-> r.fs, loaded |-> TRUE, loadErr |-> r.loadErr]

needToSendNoCheck(slacker, f, hash) ==
    [need |-> TRUE, fs |-> f, loaded |-> FALSE, loadErr |-> FALSE]

needToSend(slacker, f, hash) ==
    IF slacker.Frequency = NotifyAlways
        THEN [need |-> TRUE, fs |-> f, loaded |-> FALSE, loadErr |-> FALSE]
    ELSE LET r == inDb(f, hash)
         IN [need |-> ~r.found, fs |-> r.fs, loaded |-> TRUE, loadErr |-> r.loadErr]

\* the Record held by the file, as a later loadDb would decode it
Record(f) == IF f.exists THEN Decode(f.body) ELSE DecodeError

(* ------------------------------ Send calls ----------------------------- *)
IdleCall ==
    [pc |-> "idle", slacker |-> Slacker("", << >>, NotifyAlways, ""), message |-> "",
     at |-> 0, hash |-> "", next |-> 1, posted |-> << >>, attempts |-> 0, oks |-> 0,
     loaded |-> FALSE, loadErr |-> FALSE, db |-> EmptyDb, result |-> "",
     clean |-> TRUE, storeOk |-> TRUE]

\* the record file can be opened, decoded and written, or else be created
StoreHealthy(f) ==
    IF f.exists THEN f.writable /\ ~Decode(f.body).err ELSE f.creatable

\* what is remembered of a call that returned
Summary(c) ==
    [pc |-> c.pc, Frequency |-> c.slacker.Frequency, MessageTag |-> c.slacker.MessageTag,
     message |-> c.message, at |-> c.at, result |-> c.result]

Running(c) == c.pc \in {"check", "deliver", "load", "save"}

Finish(p, c) ==
    /\ call' = [call EXCEPT ![p] = [c EXCEPT !.pc = "done"]]
    /\ disturbed' = FALSE

\* Send, lines 55-59: setDefaults, then getHash reads the clock
Begin(p) ==
    /\ calls < MaxCalls
    /\ \A q \in Procs : ~Running(call[q])
    /\ \E in \in Inputs :
         LET given == in.slacker
             message == in.message
             c == [IdleCall EXCEPT !.message = message, !.at = now,
                                    !.storeOk = StoreHealthy(fs)]
         IN IF setDefaultsErr(given) # ""
              THEN /\ call' = [call EXCEPT ![p] =
                          [c EXCEPT !.pc = "done", !.slacker = given, !.result = "ConfigInvalid"]]
                   /\ UNCHANGED disturbed
              ELSE /\ call' = [call EXCEPT ![p] =
                          [c EXCEPT !.pc = "check", !.slacker = setDefaults(given),
                                    !.hash = getHash(setDefaults(given), message, now)]]
                   /\ UNCHANGED disturbed
    /\ prev' = IF call[p].pc = "done" THEN Summary(call[p]) ELSE prev
    /\ calls' = calls + 1
    /\ UNCHANGED <<now, fs, acked, faults>>

\* Send, lines 60-63: needToSend
Check(p) ==
    /\ call[p].pc = "check"
    /\ LET c == call[p]
           r == needToSend(c.slacker, fs, c.hash)
           d == [c EXCEPT !.loaded = r.loaded, !.loadErr = r.loadErr, !.clean = ~disturbed]
       IN /\ fs' = r.fs
          /\ IF r.need
               THEN /\ call' = [call EXCEPT ![p] = [d EXCEPT !.pc = "deliver"]]
                    /\ UNCHANGED disturbed
               ELSE Finish(p, [d EXCEPT !.result = "Skipped"])
    /\ UNCHANGED <<now, prev, acked, calls, faults>>

DeliverContinues(p) ==
    /\ call[p].pc = "deliver"
    /\ \E outcome \in PostOutcomes :
         LET c == call[p]
             m == SlackMessage(c.slacker, c.slacker.To[c.next], c.message)
             r == send(outcome)
             ok == ~outcome.err /\ outcome.body = "ok"
             d == [c EXCEPT !.attempts = @ + 1, !.oks = IF ok THEN @ + 1 ELSE @]
         IN /\ call' = [call EXCEPT ![p] =
                   [d EXCEPT !.posted = IF r.err THEN @ ELSE Append(@, m), !.next = @ + 1,
                             !.pc = IF c.next = Len(c.slacker.To) THEN "load" ELSE "deliver"]]
            /\ acked' = IF d.oks = Len(c.slacker.To)
                          THEN acked \cup {[hash |-> c.hash, message |-> c.message]}
                          ELSE acked
            /\ UNCHANGED disturbed
    /\ UNCHANGED <<now, fs, prev, calls, faults>>

\* Send, lines 70-81: one iteration of the loop over the recipients
Deliver(p) ==
    /\ call[p].pc = "deliver"
    /\ \E outcome \in PostOutcomes :
         LET c == call[p]
             m == SlackMessage(c.slacker, c.slacker.To[c.next], c.message)
             r == send(outcome)
             ok == ~outcome.err /\ outcome.body = "ok"
             d == [c EXCEPT !.attempts = @ + 1, !.oks = IF ok THEN @ + 1 ELSE @]
         IN IF r.err
              THEN /\ Finish(p, [d EXCEPT !.result = "DeliveryFailed"])
                   /\ UNCHANGED acked
              ELSE /\ call' = [call EXCEPT ![p] =
                          [d EXCEPT !.posted = Append(@, m), !.next = @ + 1,
                                    !.pc = IF c.next = Len(c.slacker.To) THEN "load" ELSE "deliver"]]
                   /\ acked' = IF d.oks = Len(c.slacker.To)
                                 THEN acked \cup {[hash |-> c.hash, message |-> c.message]}
                                 ELSE acked
                   /\ UNCHANGED disturbed
    /\ UNCHANGED <<now, fs, prev, calls, faults>>

AddToDbLoadWrongValue(p) ==
    /\ call[p].pc = "load"
    /\ LET c == call[p]
           l == loadDb(fs)
       IN /\ fs' = l.fs
          /\ IF l.err
               THEN Finish(p, [c EXCEPT !.result = "StoreUnavailable"])
               ELSE /\ call' = [call EXCEPT ![p] =
                          [c EXCEPT !.pc = "save", !.db = DbPut(l.db, c.hash, c.hash)]]
                    /\ UNCHANGED disturbed
    /\ UNCHANGED <<now, prev, acked, calls, faults>>

AddToDbLoadFresh(p) ==
    /\ call[p].pc = "load"
    /\ LET c == call[p]
           l == loadDb(fs)
       IN /\ fs' = l.fs
          /\ IF l.err
               THEN Finish(p, [c EXCEPT !.result = "StoreUnavailable"])
               ELSE /\ call' = [call EXCEPT ![p] =
                          [c EXCEPT !.pc = "save", !.db = DbPut(EmptyDb, c.hash, c.message)]]
                    /\ UNCHANGED disturbed
    /\ UNCHANGED <<now, prev, acked, calls, faults>>

\* addToDb, lines 181-186: loadDb and the update of the loaded map
AddToDbLoad(p) ==
    /\ call[p].pc = "load"
    /\ LET c == call[p]
           l == loadDb(fs)
       IN /\ fs' = l.fs
          /\ IF l.err
               THEN Finish(p, [c EXCEPT !.result = "StoreUnavailable"])
               ELSE /\ call' = [call EXCEPT ![p] =
                          [c EXCEPT !.pc = "save", !.db = DbPut(l.db, c.hash, c.message)]]
                    /\ UNCHANGED disturbed
    /\ UNCHANGED <<now, prev, acked, calls, faults>>

AddToDbSaveIgnoresError(p) ==
    /\ call[p].pc = "save"
    /\ LET c == call[p]
           s == saveDb(fs, c.db)
       IN /\ fs' = s.fs
          /\ Finish(p, [c EXCEPT !.result = "Recorded"])
    /\ UNCHANGED <<now, prev, acked, calls, faults>>

\* addToDb, lines 188-193: saveDb
AddToDbSave(p) ==
    /\ call[p].pc = "save"
    /\ LET c == call[p]
           s == saveDb(fs, c.db)
       IN /\ fs' = s.fs
          /\ Finish(p, [c EXCEPT !.result = IF s.err THEN "StoreUnavailable" ELSE "Recorded"])
    /\ UNCHANGED <<now, prev, acked, calls, faults>>

(* ----------------------------- environment ----------------------------- *)
\* the clock is read once per Send, by getHash; its advance is taken between calls
Tick ==
    /\ now < StartHour + MaxTicks
    /\ \A q \in Procs : ~Running(call[q])
    /\ now' = now + 1
    /\ UNCHANGED <<fs, call, prev, disturbed, acked, calls, faults>>

EnvFault(f) ==
    /\ faults < MaxFaults
    /\ fs' = f
    /\ faults' = faults + 1
    /\ disturbed' = TRUE
    /\ call' = [p \in Procs |->
                  IF Running(call[p]) THEN [call[p] EXCEPT !.storeOk = FALSE] ELSE call[p]]
    /\ UNCHANGED <<now, prev, acked, calls>>

\* the record file is deleted
EnvRemove ==
    /\ fs.exists
    /\ EnvFault([fs EXCEPT !.exists = FALSE, !.body = "", !.writable = TRUE])

\* the record file is cut to zero length
EnvTruncate ==
    /\ fs.exists /\ fs.body # ""
    /\ EnvFault([fs EXCEPT !.body = ""])

\* the record file becomes read-only
EnvReadOnly ==
    /\ fs.exists /\ fs.writable
    /\ EnvFault([fs EXCEPT !.writable = FALSE])

\* the directory stops accepting new files
EnvNoCreate ==
    /\ fs.creatable
    /\ EnvFault([fs EXCEPT !.creatable = FALSE])

Init ==
    /\ now = StartHour
    /\ fs \in {[exists |-> FALSE, body |-> "", writable |-> TRUE, creatable |-> TRUE],
                [exists |-> TRUE, body |-> "{}", writable |-> TRUE, creatable |-> TRUE]}
    /\ call = [p \in Procs |-> IdleCall]
    /\ prev = Summary(IdleCall)
    /\ disturbed = FALSE
    /\ acked = {}
    /\ calls = 0
    /\ faults = 0

\* one caller: its Send calls follow one another
Next ==
    \/ Begin("p1")
    \/ Check("p1")
    \/ Deliver("p1")
    \/ AddToDbLoad("p1")
    \/ AddToDbSave("p1")
    \/ Tick
    \/ EnvRemove
    \/ EnvTruncate
    \/ EnvReadOnly
    \/ EnvNoCreate

Spec == Init /\ [][Next]_vars

(* ---------------- two callers, not serialized by anything -------------- *)
\* what the two concurrent callers pass to Send
ConcInputs ==
    {[slacker |-> Slacker("https://hook", <<Recipient1>>, frequency, tag), message |-> message] :
        frequency \in Frequencies, tag \in Tags, message \in Messages}

\* Send, lines 55-59, by a caller that does not wait for the other one; each
\* caller makes one call
BeginConc(p) ==
    /\ call[p].pc = "idle"
    /\ \E in \in ConcInputs :
         call' = [call EXCEPT ![p] =
            [IdleCall EXCEPT !.message = in.message, !.at = now,
                             !.storeOk = StoreHealthy(fs), !.pc = "check",
                             !.slacker = setDefaults(in.slacker),
                             !.hash = getHash(setDefaults(in.slacker), in.message, now)]]
    /\ calls' = calls + 1
    /\ UNCHANGED <<now, fs, prev, disturbed, acked, faults>>

NextConc ==
    \/ \E p \in Procs : BeginConc(p)
    \/ \E p \in Procs : Check(p)
    \/ \E p \in Procs : Deliver(p)
    \/ \E p \in Procs : AddToDbLoad(p)
    \/ \E p \in Procs : AddToDbSave(p)

SpecConc == Init /\ [][NextConc]_vars

(* ------------------ getHash on its own: two fingerprints ---------------- *)
HashTags == {"a", "a:b"}
HashMessages == {"c", "b:c"}

\* a caller computes the fingerprint of a message under a tag at the current time
HashCall(p) ==
    /\ \E tag \in HashTags, message \in HashMessages,
          frequency \in {NotifyOnceHour, NotifyOnceDay} :
         LET slacker == setDefaults(Slacker("https://hook", <<Recipient1>>, frequency, tag))
         IN call' = [call EXCEPT ![p] =
                [IdleCall EXCEPT !.pc = "hashed", !.slacker = slacker, !.message = message,
                                 !.at = now, !.hash = getHash(slacker, message, now)]]
    /\ UNCHANGED <<now, fs, prev, disturbed, acked, calls, faults>>

NextHash ==
    \/ \E p \in Procs : HashCall(p)
    \/ Tick

SpecHash == Init /\ [][NextHash]_vars

TypeOK ==
    /\ now \in StartHour..(StartHour + MaxTicks)
    /\ calls \in 0..MaxCalls
    /\ faults \in 0..MaxFaults
    /\ fs.exists \in BOOLEAN /\ fs.writable \in BOOLEAN /\ fs.creatable \in BOOLEAN
    /\ \A p \in Procs : call[p].pc \in {"idle", "hashed", "check", "deliver", "load", "save", "done"}

(* --------------------------- claim vocabulary -------------------------- *)
Bucket(frequency, t) == IF frequency = NotifyOnceHour THEN FormatHour(t) ELSE FormatDay(t)

Deduped(c) == c.slacker.Frequency \in {NotifyOnceHour, NotifyOnceDay}

\* c is a Send call that passed setDefaults
Valid(c) == c.pc # "idle" /\ c.result # "ConfigInvalid"

\* c is past its dedup check
Decided(c) == Valid(c) /\ c.pc # "check"

\* the call before c had the same policy, tag and message
SameStream(c) ==
    /\ prev.pc = "done" /\ prev.result # "ConfigInvalid"
    /\ prev.Frequency = c.slacker.Frequency
    /\ prev.MessageTag = c.slacker.MessageTag
    /\ prev.message = c.message

SameBucket(c) == Bucket(c.slacker.Frequency, prev.at) = Bucket(c.slacker.Frequency, c.at)

\* the payloads of a full fan-out, in configured order
AllPayloads(c) ==
    [i \in 1..Len(c.slacker.To) |-> SlackMessage(c.slacker, c.slacker.To[i], c.message)]

(* -------------------------------- claims ------------------------------- *)
\* C1: under NotifyOnceHour / NotifyOnceDay, a Send that follows a Send of the
\* same message and tag in the same hour / day bucket which returned nil
\* (Recorded or Skipped), the record file left alone in between, issues no POST;
\* a Send of the same message and tag in a later bucket is not suppressed: it
\* POSTs, to every recipient when no POST fails.
C1_OncePerBucket ==
    \A p \in Procs :
        LET c == call[p]
        IN (c.pc = "done" /\ Valid(c) /\ Deduped(c) /\ SameStream(c)) =>
            /\ (SameBucket(c) /\ prev.result \in {"Recorded", "Skipped"} /\ c.clean)
                  => (c.result = "Skipped" /\ c.attempts = 0)
            /\ ~SameBucket(c)
                  => /\ c.result # "Skipped" /\ c.attempts >= 1
                     /\ (c.oks = c.attempts => c.posted = AllPayloads(c))

C1_Witness ==
    LET c == call["p1"]
    IN /\ c.pc = "done" /\ Deduped(c) /\ SameStream(c) /\ SameBucket(c)
       /\ prev.result = "Recorded" /\ c.clean
       /\ c.result = "Skipped" /\ c.attempts = 0

\* C2: under NotifyAlways needToSend answers true for every content of the
\* record file (fingerprint present, file missing, file undecodable) and every
\* repetition of a message, and it neither loads nor creates the file.
C2_AlwaysSends ==
    /\ \A in \in Inputs :
          (in.slacker.Frequency = NotifyAlways /\ setDefaultsErr(in.slacker) = "") =>
              LET s == setDefaults(in.slacker)
                  r == needToSend(s, fs, getHash(s, in.message, now))
              IN r.need /\ ~r.loaded /\ r.fs = fs
    /\ \A p \in Procs :
          LET c == call[p]
          IN (Decided(c) /\ c.slacker.Frequency = NotifyAlways) =>
                /\ ~c.loaded /\ c.result # "Skipped"
                /\ (c.pc = "done" => c.attempts >= 1)

C2_Witness ==
    LET c == call["p1"]
    IN /\ c.pc = "deliver" /\ c.slacker.Frequency = NotifyAlways
       /\ SameStream(c) /\ prev.result = "Recorded"
       /\ ~Record(fs).err /\ c.hash \in DOMAIN Record(fs).db

\* C3: every entry of the Record, and of a map about to be saved, belongs to
\* a (fingerprint, message) pair that every configured recipient answered
\* "ok" to; a call reaches the mark-as-sent step only with all its POSTs
\* answered "ok".
C3_RecordedAfterDelivery ==
    /\ ~Record(fs).err =>
          \A k \in DOMAIN Record(fs).db :
              [hash |-> k, message |-> Record(fs).db[k]] \in acked
    /\ \A p \in Procs :
          LET c == call[p]
          IN /\ c.pc = "save" =>
                  \A k \in DOMAIN c.db : [hash |-> k, message |-> c.db[k]] \in acked
             /\ (c.pc \in {"load", "save"} \/ c.result \in {"Recorded", "StoreUnavailable"}) =>
                  /\ c.oks = Len(c.slacker.To)
                  /\ c.attempts = c.oks
                  /\ c.posted = AllPayloads(c)

C3_Witness ==
    LET c == call["p1"]
    IN /\ c.result = "Recorded" /\ Len(c.slacker.To) = 2
       /\ ~Record(fs).err /\ c.hash \in DOMAIN Record(fs).db
       /\ prev.result = "DeliveryFailed"

\* C4: the first POST of a Send that fails ends the call with the delivery
\* failure: the recipients after it get no POST, the payloads accepted before
\* it stay accepted, the record file is untouched; and the Send of the same
\* message and tag in the same bucket that follows is not suppressed.
C4_Step ==
    \A p \in Procs :
        LET c == call[p]
            d == call'[p]
        IN /\ (c.pc = "deliver" /\ d.attempts = c.attempts + 1 /\ d.oks = c.oks) =>
                /\ d.pc = "done" /\ d.result = "DeliveryFailed"
                /\ d.posted = c.posted
                /\ fs' = fs /\ acked' = acked
           /\ d.result = "DeliveryFailed" =>
                /\ d.pc = "done"
                /\ d.attempts = Len(d.posted) + 1 /\ d.attempts <= Len(d.slacker.To)
                /\ d.posted = SubSeq(AllPayloads(d), 1, d.attempts - 1)
           /\ (c.pc = "done" /\ d # c) => (d.attempts = 0 /\ d.posted = << >>)
           /\ (Decided(d) /\ prev'.result = "DeliveryFailed" /\
               prev'.pc = "done" /\ prev'.Frequency = d.slacker.Frequency /\
               prev'.MessageTag = d.slacker.MessageTag /\ prev'.message = d.message /\
               Bucket(d.slacker.Frequency, prev'.at) = Bucket(d.slacker.Frequency, d.at))
                => d.result # "Skipped"

C4_PartialFanOut == [][C4_Step]_vars

C4_Witness ==
    LET c == call["p1"]
    IN /\ c.result = "DeliveryFailed" /\ c.attempts = 2 /\ Len(c.posted) = 1
       /\ Deduped(c) /\ SameStream(c) /\ SameBucket(c) /\ prev.result = "DeliveryFailed"
       /\ ~Record(fs).err /\ c.hash \notin DOMAIN Record(fs).db

\* C5: a Send past the dedup check whose POSTs are all answered "ok" has
\* issued exactly one POST per recipient, in configured order; under
\* NotifyOnceHour / NotifyOnceDay, with the record file usable, it then ends
\* Recorded, and the save adds exactly <bucket>:<tag>:<message> -> message to
\* the Record, every other entry as before.
C5_Step ==
    \A p \in Procs :
        LET c == call[p]
            d == call'[p]
        IN /\ (c.pc = "save" /\ d.result = "Recorded" /\ ~Record(fs).err) =>
                Record(fs') = [err |-> FALSE, db |-> DbPut(Record(fs).db, c.hash, c.message)]
           /\ (c.pc = "save" /\ d.result = "Recorded" /\ Deduped(c)) =>
                /\ c.hash = Bucket(c.slacker.Frequency, c.at) \o ":" \o c.slacker.MessageTag
                              \o ":" \o c.message
                /\ ~Record(fs').err
                /\ c.hash \in DOMAIN Record(fs').db
                /\ Record(fs').db[c.hash] = c.message
           /\ (Decided(d) /\ d.oks = Len(d.slacker.To)) =>
                /\ d.attempts = Len(d.slacker.To)
                /\ d.posted = AllPayloads(d)
           /\ (d.pc = "done" /\ Decided(d) /\ Deduped(d) /\ d.storeOk /\ d.oks = Len(d.slacker.To))
                => d.result = "Recorded"

C5_FanOutThenRecord == [][C5_Step]_vars

C5_Witness ==
    LET c == call["p1"]
    IN /\ c.result = "Recorded" /\ Deduped(c) /\ c.storeOk
       /\ Len(c.posted) = 2 /\ c.attempts = 2
       /\ ~Record(fs).err /\ Cardinality(DOMAIN Record(fs).db) = 2
       /\ Record(fs).db[c.hash] = c.message

\* C6: a Send whose Hook is empty or whose recipient list is empty ends at
\* once with the configuration error: no POST, no load, and the step leaves
\* the record file as it was.
C6_Step ==
    \A p \in Procs :
        LET c == call[p]
            d == call'[p]
        IN (d.pc # "idle" /\ (d.slacker.Hook = "" \/ Len(d.slacker.To) = 0)) =>
              /\ d.pc = "done" /\ d.result = "ConfigInvalid"
              /\ d.attempts = 0 /\ d.posted = << >> /\ ~d.loaded
              /\ (d # c => (fs' = fs /\ acked' = acked))

C6_ConfigInvalid == [][C6_Step]_vars

C6_Witness ==
    LET c == call["p1"]
    IN /\ c.result = "ConfigInvalid" /\ c.slacker.Hook # "" /\ Len(c.slacker.To) = 0
       /\ prev.result = "ConfigInvalid" /\ ~fs.exists

\* C7: when the mark-as-sent step of a Send fails (its loadDb or its saveDb),
\* the call ends with the store error, every recipient keeps its accepted
\* payload, under NotifyOnceHour / NotifyOnceDay the Record lacks the
\* fingerprint, and the Send of the same message and tag in the same bucket
\* that follows is not suppressed.
C7_Step ==
    \A p \in Procs :
        LET c == call[p]
            d == call'[p]
            markFailed == \/ c.pc = "load" /\ loadDb(fs).err
                          \/ c.pc = "save" /\ saveDb(fs, c.db).err
        IN /\ (c.pc \in {"load", "save"} /\ d.pc # c.pc /\ markFailed) =>
                /\ d.pc = "done" /\ d.result = "StoreUnavailable"
                /\ d.posted = AllPayloads(c) /\ d.oks = Len(c.slacker.To)
                /\ Deduped(c) => c.hash \notin DOMAIN Record(fs').db
           /\ (Decided(d) /\ prev'.result = "StoreUnavailable" /\
               prev'.pc = "done" /\ prev'.Frequency = d.slacker.Frequency /\
               prev'.MessageTag = d.slacker.MessageTag /\ prev'.message = d.message /\
               Bucket(d.slacker.Frequency, prev'.at) = Bucket(d.slacker.Frequency, d.at))
                => d.result # "Skipped"

C7_MarkFailure == [][C7_Step]_vars

C7_Witness ==
    LET c == call["p1"]
    IN /\ Decided(c) /\ Deduped(c) /\ c.attempts >= 1
       /\ SameStream(c) /\ SameBucket(c) /\ prev.result = "StoreUnavailable"
       /\ fs.exists /\ ~fs.writable

\* C8: under NotifyOnceHour / NotifyOnceDay, when loadDb fails in the dedup
\* check, needToSend answers true and the call goes on to POST.
C8_PermissiveCheck ==
    /\ loadDb(fs).err =>
          \A in \in Inputs :
              (in.slacker.Frequency # NotifyAlways /\ setDefaultsErr(in.slacker) = "") =>
                  LET s == setDefaults(in.slacker)
                  IN needToSend(s, fs, getHash(s, in.message, now)).need
    /\ \A p \in Procs :
          LET c == call[p]
          IN (Decided(c) /\ Deduped(c) /\ c.loadErr) =>
                /\ c.loaded /\ c.result # "Skipped"
                /\ (c.pc = "done" => c.attempts >= 1)

C8_Witness ==
    LET c == call["p1"]
    IN /\ Deduped(c) /\ c.loadErr /\ c.pc = "done" /\ c.oks = 2
       /\ fs.exists /\ fs.body = ""

\* C9: for a fixed policy among NotifyOnceHour / NotifyOnceDay and a fixed
\* time bucket, equal (tag, message) pairs get equal fingerprints and distinct
\* (tag, message) pairs get distinct fingerprints.
C9_Injective ==
    \A p, q \in Procs :
        LET c == call[p]
            d == call[q]
        IN (c.pc = "hashed" /\ d.pc = "hashed"
              /\ c.slacker.Frequency = d.slacker.Frequency
              /\ Bucket(c.slacker.Frequency, c.at) = Bucket(d.slacker.Frequency, d.at)) =>
             (c.hash = d.hash <=>
                (c.slacker.MessageTag = d.slacker.MessageTag /\ c.message = d.message))

\* C10: a loadDb that finds no file (in a directory that accepts new files)
\* leaves the file with body {}; on that file loadDb succeeds, yields the
\* empty mapping and changes nothing, however often it is repeated.
C10_Step ==
    /\ (~fs.exists /\ fs'.exists) =>
          /\ fs'.body = "{}"
          /\ loadDb(fs') = [err |-> FALSE, db |-> EmptyDb, fs |-> fs']
    /\ \A p \in Procs :
          LET c == call[p]
              d == call'[p]
              loads == \/ c.pc = "check" /\ Deduped(c)
                       \/ c.pc = "load"
          IN (loads /\ d.pc # c.pc /\ ~fs.exists /\ fs.creatable) => fs'.exists

C10_Bootstrap == [][C10_Step]_vars

C10_Witness ==
    LET c == call["p1"]
    IN /\ c.loaded /\ c.loadErr /\ c.pc = "deliver"
       /\ fs.exists /\ fs.body = "{}" /\ faults = 0 /\ prev.pc = "idle"

\* C11: a Record read from the file by loadDb, written back by saveDb and read
\* again by loadDb is the same mapping; likewise any mapping a call is about to
\* save is the mapping loadDb reads after the save, whatever the file held.
C11_RoundTrip ==
    /\ ~Record(fs).err =>
          LET l == loadDb(fs)
              s == saveDb(l.fs, l.db)
              r == loadDb(s.fs)
          IN /\ ~l.err /\ l.db = Record(fs).db
             /\ ~r.err /\ r.db = l.db
    /\ \A p \in Procs :
          (call[p].pc = "save" /\ ~saveDb(fs, call[p].db).err) =>
              LET r == loadDb(saveDb(fs, call[p].db).fs)
              IN ~r.err /\ r.db = call[p].db

C11_Witness ==
    LET c == call["p1"]
    IN /\ c.pc = "save" /\ ~saveDb(fs, c.db).err
       /\ Len(Encode(c.db)) < Len(fs.body)
       /\ Cardinality(DOMAIN Record(fs).db) >= 1

\* C12: a loadDb that finds no file, in a directory that accepts new files,
\* returns the empty Record without error in that same call: the call that
\* runs it does not see a load error.
C12_Step ==
    \A p \in Procs :
        LET c == call[p]
            d == call'[p]
        IN (d.pc # c.pc /\ ~fs.exists /\ fs.creatable) =>
              /\ (c.pc = "check" /\ Deduped(c)) => (d.loaded /\ ~d.loadErr)
              /\ c.pc = "load" => (d.pc = "save" /\ d.db = DbPut(EmptyDb, c.hash, c.message))

C12_LoadCreates == [][C12_Step]_vars

\* C13: a Send with a valid configuration, all of whose POSTs are answered
\* "ok", on a record file that can be created, read and written, ends Skipped
\* or Recorded, under every policy, whether or not the file existed before.
C13_EndsWell ==
    \A p \in Procs :
        LET c == call[p]
        IN (c.pc = "done" /\ Valid(c) /\ c.oks = c.attempts /\ c.storeOk) =>
              c.result \in {"Skipped", "Recorded"}

\* C14: when the dedup check finds the fingerprint in the Record, the Send
\* issues no POST, returns nil (Skipped) and leaves the file as it was; no
\* dedup check adds, changes or removes an entry of the Record.
C14_Step ==
    \A p \in Procs :
        LET c == call[p]
            d == call'[p]
        IN (c.pc = "check" /\ d.pc # c.pc) =>
              /\ Record(fs').db = Record(fs).db
              /\ (Deduped(c) /\ ~Record(fs).err /\ c.hash \in DOMAIN Record(fs).db) =>
                    /\ d.pc = "done" /\ d.result = "Skipped"
                    /\ d.attempts = 0 /\ d.posted = << >>
                    /\ fs' = fs /\ acked' = acked

C14_SkipIsPure == [][C14_Step]_vars

C14_Witness ==
    LET c == call["p1"]
    IN /\ c.pc = "done" /\ c.result = "Skipped" /\ c.attempts = 0
       /\ c.slacker.Frequency = NotifyOnceDay /\ prev.at < c.at
       /\ c.hash \in DOMAIN Record(fs).db /\ Record(fs).db[c.hash] = c.message

\* C15: with two callers nothing serializes, the mark-as-sent step of each
\* takes the Record it loaded plus its own entry and its save makes the file's
\* Record exactly that mapping, so an entry saved by the other caller in
\* between is lost: both messages delivered, one fingerprint in the Record.
C15_Step ==
    \A p \in Procs :
        LET c == call[p]
            d == call'[p]
        IN /\ (c.pc = "load" /\ d.pc = "save") =>
                d.db = DbPut(Record(fs).db, c.hash, c.message)
           /\ (c.pc = "save" /\ d.pc = "done" /\ d.result = "Recorded") =>
                Record(fs').db = c.db

C15_LastSaveWins == [][C15_Step]_vars

C15_Witness ==
    LET c == call["p1"]
        e == call["p2"]
    IN /\ c.result = "Recorded" /\ e.result = "Recorded"
       /\ Deduped(c) /\ Deduped(e) /\ c.hash # e.hash
       /\ [hash |-> c.hash, message |-> c.message] \in acked
       /\ [hash |-> e.hash, message |-> e.message] \in acked
       /\ ~Record(fs).err
       /\ DOMAIN Record(fs).db = {e.hash}

\* C16: over Send calls that follow one another, whatever their policies, tags
\* and messages and whichever way they end, no step of a Send removes a
\* fingerprint from the Record, or changes the message stored under a
\* non-empty fingerprint.
C16_Step ==
    (faults' = faults) =>
        \A k \in DOMAIN Record(fs).db :
            /\ k \in DOMAIN Record(fs').db
            /\ k # "" => Record(fs').db[k] = Record(fs).db[k]

C16_AppendOnly == [][C16_Step]_vars

C16_Witness ==
    LET c == call["p1"]
    IN /\ c.pc = "done" /\ c.result = "DeliveryFailed"
       /\ prev.result = "Recorded" /\ prev.Frequency # NotifyAlways
       /\ Cardinality(DOMAIN Record(fs).db) = 1 /\ faults = 0

\* C17: after a saveDb that succeeded, the file's content is exactly the
\* serialization of the saved Record, also when it is shorter than what the
\* file held before.
C17_Step ==
    \A p \in Procs :
        LET c == call[p]
            d == call'[p]
        IN (c.pc = "save" /\ d.pc = "done" /\ d.result = "Recorded") =>
              fs'.body = Encode(c.db)

C17_ExactContent == [][C17_Step]_vars

\* C18: with two callers nothing serializes, a dedup check under
\* NotifyOnceHour / NotifyOnceDay skips exactly when the fingerprint is in the
\* file's Record at that moment, whatever the other caller is doing; so two
\* Sends of one fingerprint both pass it before either has saved, and the
\* message is delivered twice in one bucket.
C18_Step ==
    \A p \in Procs :
        LET c == call[p]
            d == call'[p]
        IN (c.pc = "check" /\ d.pc # c.pc /\ Deduped(c)) =>
              /\ d.pc \in {"done", "deliver"}
              /\ d.pc = "done" <=> (~Record(fs).err /\ c.hash \in DOMAIN Record(fs).db)
              /\ d.pc = "done" => d.result = "Skipped"

C18_CheckSeesFileOnly == [][C18_Step]_vars

C18_Witness ==
    LET c == call["p1"]
        e == call["p2"]
    IN /\ Deduped(c) /\ Deduped(e) /\ c.hash = e.hash
       /\ Bucket(c.slacker.Frequency, c.at) = Bucket(e.slacker.Frequency, e.at)
       /\ c.oks = Len(c.slacker.To) /\ e.oks = Len(e.slacker.To)
       /\ c.oks >= 1 /\ e.oks >= 1
       /\ c.pc = "done" /\ e.pc = "done"

\* C19: under NotifyAlways the fingerprint is empty; the mark-as-sent step of
\* such a Send on an existing readable file sets Record[""] to the message and
\* keeps every other entry, so it adds at most the one empty key; and a Send is
\* skipped only under NotifyOnceHour / NotifyOnceDay, on a non-empty
\* fingerprint whose message every recipient had accepted.
C19_Step ==
    \A p \in Procs :
        LET c == call[p]
            d == call'[p]
            always == c.slacker.Frequency = NotifyAlways
        IN /\ (Valid(c) /\ always) => c.hash = ""
           /\ (always /\ c.pc = "deliver" /\ d.pc # c.pc /\ d.oks = Len(c.slacker.To)) =>
                 d.pc = "load"
           /\ (always /\ c.pc = "load" /\ d.pc # c.pc /\ ~Record(fs).err) =>
                 /\ d.pc = "save"
                 /\ d.db = [k \in DOMAIN Record(fs).db \cup {""} |->
                              IF k = "" THEN c.message ELSE Record(fs).db[k]]
           /\ (always /\ c.pc = "save" /\ d.pc # c.pc /\ d.result = "Recorded") =>
                 /\ Record(fs').db = c.db
                 /\ Record(fs').db[""] = c.message
           /\ d.result = "Skipped" =>
                 /\ Deduped(d) /\ d.hash # ""
                 /\ [hash |-> d.hash, message |-> d.message] \in acked

C19_AlwaysKey == [][C19_Step]_vars

C19_Witness ==
    LET c == call["p1"]
    IN /\ c.pc = "done" /\ c.result = "Recorded" /\ c.slacker.Frequency = NotifyAlways
       /\ prev.result = "Recorded" /\ prev.Frequency # NotifyAlways
       /\ Cardinality(DOMAIN Record(fs).db) = 2
       /\ Record(fs).db[""] = c.message
====
